---- MODULE Spec2Model ----
(***************************************************************************)
(* Model of the local weighted regression smoother of src/all/4th.py:      *)
(* my_lowess (window selection, tri-cube weights, weighted linear fit) and *)
(* its wrapper lowess.                                                     *)
(*                                                                         *)
(* numpy's floating-point numbers are modelled as exact rationals extended *)
(* with the IEEE special values nan and +-inf.  A rational is the record   *)
(* [k, sg, n, d]: k is "fin", "nan" or "inf", sg the sign (-1, 0, 1), n    *)
(* and d the magnitudes of numerator and denominator.  Magnitudes are      *)
(* natural numbers of unbounded size, written as little-endian sequences   *)
(* of digits in base Base (the empty sequence is zero).                    *)
(***************************************************************************)
EXTENDS Integers, Sequences, FiniteSets

----------------------------------------------------------------------------
(* Natural numbers of unbounded size.                                      *)

Base == 10000

RECURSIVE FromNat(_)
FromNat(k) == IF k = 0 THEN <<>> ELSE <<k % Base>> \o FromNat(k \div Base)

Max(a, b) == IF a >= b THEN a ELSE b
Min(a, b) == IF a <= b THEN a ELSE b

\* digit k of a number, 0 beyond its length
Dg(a, k) == IF k <= Len(a) THEN a[k] ELSE 0

\* the digits of a without leading zeros (the zeros at the high end)
BNorm(a) ==
  LET nz == {k \in 1..Len(a) : a[k] # 0}
  IN  IF nz = {} THEN <<>>
      ELSE SubSeq(a, 1, CHOOSE k \in nz : \A l \in nz : l <= k)

\* a without its highest digit when that digit is zero
Trim(a) ==
  IF a # <<>> /\ a[Len(a)] = 0 THEN SubSeq(a, 1, Len(a) - 1) ELSE a

\* the digits of the number whose digit k has the value s[k] in
\* 0 .. 2 * Base - 2, one digit more than s: the carry into digit k is set
\* by a lower digit of at least Base and handed on by digits Base - 1
Propagate(s) ==
  IF \A j \in 1..Len(s) : s[j] < Base THEN s
  ELSE LET carry(k) == \E j \in 1..(k - 1) :
                         /\ s[j] >= Base
                         /\ \A l \in (j + 1)..(k - 1) : s[l] = Base - 1
       IN  [k \in 1..(Len(s) + 1) |->
             (Dg(s, k) + (IF carry(k) THEN 1 ELSE 0)) % Base]

BAdd(a, b) ==
  IF a = <<>> THEN b
  ELSE IF b = <<>> THEN a
  ELSE Trim(Propagate([k \in 1..Max(Len(a), Len(b)) |->
                        Dg(a, k) + Dg(b, k)]))

\* a - b for a >= b: the borrow into digit k is set by a lower digit
\* difference below zero and handed on by differences of zero
BSub(a, b) ==
  LET t == [k \in 1..Len(a) |-> a[k] - Dg(b, k)]
      borrow(k) == \E j \in 1..(k - 1) :
                     /\ t[j] < 0
                     /\ \A l \in (j + 1)..(k - 1) : t[l] = 0
  IN  IF \A j \in 1..Len(t) : t[j] >= 0 THEN BNorm(t)
      ELSE BNorm([k \in 1..Len(a) |->
                   (t[k] - (IF borrow(k) THEN 1 ELSE 0) + Base) % Base])

BCmp(a, b) ==
  IF Len(a) < Len(b) THEN -1
  ELSE IF Len(a) > Len(b) THEN 1
  ELSE IF a = b THEN 0
  ELSE LET df == {k \in 1..Len(a) : a[k] # b[k]}
           k == CHOOSE j \in df : \A l \in df : l <= j
       IN  IF a[k] < b[k] THEN -1 ELSE 1

\* the sum of a[j] * b[k + 1 - j] for j in lo .. hi
RECURSIVE Conv(_, _, _, _, _)
Conv(a, b, k, lo, hi) ==
  IF lo > hi THEN 0
  ELSE IF lo = hi THEN a[lo] * b[k + 1 - lo]
  ELSE LET mid == (lo + hi) \div 2
       IN  Conv(a, b, k, lo, mid) + Conv(a, b, k, mid + 1, hi)

\* one round of carries: every digit keeps its value below Base and takes
\* the excess of the digit below it
Carry(c) ==
  [k \in 1..Len(c) |->
    (c[k] % Base) + (IF k = 1 THEN 0 ELSE c[k - 1] \div Base)]

\* schoolbook product: the column sums, then carries until every digit is
\* at most Base, then the last carries
BMul(a, b) ==
  IF a = <<>> \/ b = <<>> THEN <<>>
  ELSE IF a = <<1>> THEN b
  ELSE IF b = <<1>> THEN a
  ELSE IF Len(a) = 1 /\ Len(b) = 1 THEN FromNat(a[1] * b[1])
  ELSE LET c == [k \in 1..(Len(a) + Len(b)) |->
                  Conv(a, b, k, Max(1, k + 1 - Len(b)), Min(Len(a), k))]
       IN  Trim(Trim(Propagate(Carry(Carry(Carry(c))))))

BOne == <<1>>

----------------------------------------------------------------------------
(* Rationals with nan and +-inf.                                           *)

NaN == [k |-> "nan", sg |-> 0, n |-> <<>>, d |-> <<>>]
Inf(s) == [k |-> "inf", sg |-> s, n |-> <<>>, d |-> <<>>]
Fin(s, n, d) ==
  IF n = <<>> THEN [k |-> "fin", sg |-> 0, n |-> <<>>, d |-> BOne]
  ELSE [k |-> "fin", sg |-> s, n |-> n, d |-> d]

Abs(z) == IF z < 0 THEN -z ELSE z
Sign(z) == IF z < 0 THEN -1 ELSE IF z > 0 THEN 1 ELSE 0

\* the number a Python int or an integral float denotes
RInt(z) == Fin(Sign(z), FromNat(Abs(z)), BOne)

RZero == RInt(0)
ROne == RInt(1)

IsFinite(a) == a.k = "fin"

RNeg(a) == [a EXCEPT !.sg = -a.sg]

RAbs(a) == [a EXCEPT !.sg = IF a.sg = 0 THEN 0 ELSE 1]

\* sum of two finite numbers given as signed numerators over one denominator
SignedSum(sa, na, sb, nb, d) ==
  IF sa = 0 THEN Fin(sb, nb, d)
  ELSE IF sb = 0 THEN Fin(sa, na, d)
  ELSE IF sa = sb THEN Fin(sa, BAdd(na, nb), d)
  ELSE LET c == BCmp(na, nb)
       IN  IF c = 0 THEN Fin(0, <<>>, d)
           ELSE IF c > 0 THEN Fin(sa, BSub(na, nb), d)
           ELSE Fin(sb, BSub(nb, na), d)

RAdd(a, b) ==
  IF a.k = "nan" \/ b.k = "nan" THEN NaN
  ELSE IF a.k = "inf" /\ b.k = "inf" THEN (IF a.sg = b.sg THEN a ELSE NaN)
  ELSE IF a.k = "inf" THEN a
  ELSE IF b.k = "inf" THEN b
  ELSE IF a.d = b.d THEN SignedSum(a.sg, a.n, b.sg, b.n, a.d)
  ELSE SignedSum(a.sg, BMul(a.n, b.d), b.sg, BMul(b.n, a.d), BMul(a.d, b.d))

RSub(a, b) == RAdd(a, RNeg(b))

RMul(a, b) ==
  IF a.k = "nan" \/ b.k = "nan" THEN NaN
  ELSE IF a.k = "inf" \/ b.k = "inf"
       THEN (IF a.sg = 0 \/ b.sg = 0 THEN NaN ELSE Inf(a.sg * b.sg))
  ELSE Fin(a.sg * b.sg, BMul(a.n, b.n), BMul(a.d, b.d))

\* mutant of RDiv: a division by zero yields the guarded value 0
RDiv_Guarded(a, b) ==
  IF a.k = "nan" \/ b.k = "nan" THEN NaN
  ELSE IF a.k = "inf" /\ b.k = "inf" THEN NaN
  ELSE IF a.k = "inf" THEN Inf(IF b.sg < 0 THEN -a.sg ELSE a.sg)
  ELSE IF b.k = "inf" THEN RZero
  ELSE IF b.sg = 0 THEN RZero
  ELSE IF a.d = b.d THEN Fin(a.sg * b.sg, a.n, b.n)
  ELSE Fin(a.sg * b.sg, BMul(a.n, b.d), BMul(a.d, b.n))

\* numpy division: x / 0 is +-inf, 0 / 0 is nan, and no exception is raised
RDiv(a, b) ==
  IF a.k = "nan" \/ b.k = "nan" THEN NaN
  ELSE IF a.k = "inf" /\ b.k = "inf" THEN NaN
  ELSE IF a.k = "inf" THEN Inf(IF b.sg < 0 THEN -a.sg ELSE a.sg)
  ELSE IF b.k = "inf" THEN RZero
  ELSE IF b.sg = 0 THEN (IF a.sg = 0 THEN NaN ELSE Inf(a.sg))
  ELSE IF a.d = b.d THEN Fin(a.sg * b.sg, a.n, b.n)
  ELSE Fin(a.sg * b.sg, BMul(a.n, b.d), BMul(a.d, b.n))

\* a == b as numpy compares: nan equals nothing
REq(a, b) ==
  IF a.k = "nan" \/ b.k = "nan" THEN FALSE
  ELSE IF a.k = "inf" \/ b.k = "inf" THEN a.k = b.k /\ a.sg = b.sg
  ELSE a.sg = b.sg /\ BMul(a.n, b.d) = BMul(b.n, a.d)

\* a <= b as numpy compares: every comparison with nan is False
RLe(a, b) ==
  IF a.k = "nan" \/ b.k = "nan" THEN FALSE
  ELSE LET e == RSub(b, a) IN e.sg >= 0

RCube(a) == RMul(a, RMul(a, a))

RECURSIVE RSum(_)
RSum(s) == IF s = <<>> THEN RZero ELSE RAdd(Head(s), RSum(Tail(s)))

RNe(a, b) == ~REq(a, b)

----------------------------------------------------------------------------
(* my_lowess: the tri-cube weight function, the weighted linear fit and    *)
(* the window of one target index.  Arrays are sequences; the element of   *)
(* array index j is element j + 1 of the sequence.                         *)

\* mutant of w: the inner exponent is 2 instead of 3
w_Square(x) ==
  IF RLe(RAbs(x), ROne) THEN RCube(RSub(ROne, RMul(RAbs(x), RAbs(x))))
  ELSE RZero

\* mutant of w: the absolute value is forgotten
w_NoAbs(x) ==
  IF RLe(x, ROne) THEN RCube(RSub(ROne, RCube(x))) ELSE RZero

\* mutant of w: the outer exponent is 2 instead of 3
w_OuterSquare(x) ==
  IF RLe(RAbs(x), ROne)
  THEN LET c == RSub(ROne, RCube(RAbs(x))) IN RMul(c, c)
  ELSE RZero

\* w(x): (1 - |x|^3)^3 if |x| <= 1 else 0
w(x) ==
  IF RLe(RAbs(x), ROne) THEN RCube(RSub(ROne, RCube(RAbs(x))))
  ELSE RZero

\* element-wise product and difference of arrays of equal length
VMul(s, t) == [j \in 1..Len(s) |-> RMul(s[j], t[j])]
VSubScalar(s, c) == [j \in 1..Len(s) |-> RSub(s[j], c)]

\* mutant of WeightedMean: the weighted sum is not divided by w_sum
WeightedMean_NoDivide(v, wt) == RSum(VMul(v, wt))

\* sum(v * w) / w_sum if w_sum != 0 else 0
WeightedMean(v, wt) ==
  LET w_sum == RSum(wt)
  IN  IF RNe(w_sum, RZero) THEN RDiv(RSum(VMul(v, wt)), w_sum) ELSE RZero

\* sum(w * x_diff ** 2): the weighted sum of squared centred offsets
WeightedSpread(x, wt) ==
  LET x_diff == VSubScalar(x, WeightedMean(x, wt))
  IN  RSum(VMul(wt, VMul(x_diff, x_diff)))

\* the fitted values a + b * x of the weighted least-squares line
weighted_linear_regression(x, y, wt) ==
  LET x_mean == WeightedMean(x, wt)
      y_mean == WeightedMean(y, wt)
      x_diff == VSubScalar(x, x_mean)
      y_diff == VSubScalar(y, y_mean)
      b == RDiv(RSum(VMul(wt, VMul(x_diff, y_diff))), WeightedSpread(x, wt))
      a == RSub(y_mean, RMul(b, x_mean))
  IN  [j \in 1..Len(x) |-> RAdd(a, RMul(b, x[j]))]

\* mutant of Window: both ends are clipped to [0, n] and nothing is shifted
Window_ClipOnly(i, n, window_size) ==
  [start |-> Max(i - window_size, 0), end |-> Min(i + window_size + 1, n)]

\* mutant of Window: a negative half-width is silently replaced by its
\* absolute value
Window_AbsHalf(i, n, window_size) ==
  LET h == Abs(window_size)
      start0 == i - h
      end0 == i + h + 1
      start1 == IF start0 < 0 THEN 0 ELSE start0
      end1 == IF start0 < 0 THEN end0 - start0 ELSE end0
      start2 == IF end1 > n THEN start1 - (end1 - n) ELSE start1
      end2 == IF end1 > n THEN n ELSE end1
  IN  [start |-> Max(start2, 0), end |-> Min(end2, n)]

\* mutant of Window: an upper-bound overflow is clipped, not shifted left
Window_ShiftRightOnly(i, n, window_size) ==
  LET start0 == i - window_size
      end0 == i + window_size + 1
      start1 == IF start0 < 0 THEN 0 ELSE start0
      end1 == IF start0 < 0 THEN end0 - start0 ELSE end0
  IN  [start |-> Max(start1, 0), end |-> Min(end1, n)]

\* mutant of Window: the upper bound is i + window_size, without the + 1
Window_ExclusiveEnd(i, n, window_size) ==
  LET start0 == i - window_size
      end0 == i + window_size
      start1 == IF start0 < 0 THEN 0 ELSE start0
      end1 == IF start0 < 0 THEN end0 - start0 ELSE end0
      start2 == IF end1 > n THEN start1 - (end1 - n) ELSE start1
      end2 == IF end1 > n THEN n ELSE end1
  IN  [start |-> Max(start2, 0), end |-> Min(end2, n)]

\* start and end of the window of target index i in a sequence of length n
Window(i, n, window_size) ==
  LET start0 == i - window_size
      end0 == i + window_size + 1
      start1 == IF start0 < 0 THEN 0 ELSE start0
      end1 == IF start0 < 0 THEN end0 - start0 ELSE end0
      start2 == IF end1 > n THEN start1 - (end1 - n) ELSE start1
      end2 == IF end1 > n THEN n ELSE end1
  IN  [start |-> Max(start2, 0), end |-> Min(end2, n)]

\* np.arange(start, end): empty when end <= start
arange(start, end) ==
  [j \in 1..(IF end > start THEN end - start ELSE 0) |-> start + j - 1]

\* the builtin max of a non-empty sequence of integers
RECURSIVE SeqMax(_)
SeqMax(s) == IF Len(s) = 1 THEN s[1] ELSE Max(s[1], SeqMax(Tail(s)))

\* x_local - i for the window [start, end)
Offsets(dx, i, start, end) ==
  LET window == arange(start, end)
  IN  [j \in 1..Len(window) |-> dx[window[j] + 1] - i]

\* mutant of Weights: when the largest absolute offset is 0 the normalized
\* coordinates are taken to be 0
Weights_ZeroWhenFlat(off) ==
  LET m == SeqMax([j \in 1..Len(off) |-> Abs(off[j])])
  IN  [j \in 1..Len(off) |->
         IF m = 0 THEN w(RZero) ELSE w(RDiv(RInt(off[j]), RInt(m)))]

\* mutant of Weights: the offsets are normalized by the largest absolute
\* offset plus one, so that no sample of the window gets weight 0
Weights_NormByNext(off) ==
  LET m == SeqMax([j \in 1..Len(off) |-> Abs(off[j])])
  IN  [j \in 1..Len(off) |-> w(RDiv(RInt(off[j]), RInt(m + 1)))]

\* [w(x) for x in (x_local - i) / max(abs(x_local - i))]
Weights(off) ==
  LET m == SeqMax([j \in 1..Len(off) |-> Abs(off[j])])
  IN  [j \in 1..Len(off) |-> w(RDiv(RInt(off[j]), RInt(m)))]

\* np.where(x_local == i)[0]: the window slots whose position is the target
TargetSlots(off) == {j \in 1..Len(off) : off[j] = 0}

SetMin(S) == CHOOSE x \in S : \A y \in S : x <= y

\* the exception the loop body raises for an offset vector: the builtin max
\* of an empty window raises ValueError, [0][0] of an empty np.where result
\* raises IndexError; "none" when the body raises nothing
Raises(off) ==
  IF off = <<>> THEN "ValueError"
  ELSE IF TargetSlots(off) = {} THEN "IndexError"
  ELSE "none"

\* mutant of KernelValue: the fitted value of the first window slot is taken
\* instead of that of the target's slot
KernelValue_FirstSlot(dx, dy, window_size, i) ==
  LET win == Window(i, Len(dy), window_size)
      window == arange(win.start, win.end)
      off == Offsets(dx, i, win.start, win.end)
      y_local == [j \in 1..Len(window) |-> dy[window[j] + 1]]
  IN  weighted_linear_regression([j \in 1..Len(off) |-> RInt(off[j])],
                                 y_local, Weights(off))[1]

\* the value the loop body assigns to result[i] when it raises nothing
KernelValue(dx, dy, window_size, i) ==
  LET win == Window(i, Len(dy), window_size)
      window == arange(win.start, win.end)
      off == Offsets(dx, i, win.start, win.end)
      y_local == [j \in 1..Len(window) |-> dy[window[j] + 1]]
  IN  weighted_linear_regression([j \in 1..Len(off) |-> RInt(off[j])],
                                 y_local, Weights(off))[SetMin(TargetSlots(off))]

----------------------------------------------------------------------------
(* The state of one call: the arguments, the loop index i, the locals      *)
(* start, end and the weight vector of the last iteration, the result      *)
(* array, and how the call ended.                                          *)

VARIABLES entry, data_x, data_y, window_size, pc, i, start, end, wts, result,
          exc,
          done,          \* indices whose slot has been written, when the
                         \* indices are evaluated in an order of their own
          status_label,  \* App.status_label
          plot,          \* what App.plot shows
          lines          \* the data lines of the file read_from_file is
                         \* loading

vars == <<entry, data_x, data_y, window_size, pc, i, start, end, wts, result,
          exc, done, status_label, plot, lines>>

\* what a call of my_lowess does not touch: the application's widgets and
\* the lines it has read, and the bookkeeping of out-of-order evaluation
outside == <<done, status_label, plot, lines>>

\* create_widgets: the label reads "no data loaded", the figure is empty
NotLoaded == [kind |-> "not_loaded", reason |-> "none"]
EmptyFigure == [years |-> <<>>, my_lowess |-> <<>>]

MaxN == 6
MaxHalf == 2
MaxNegHalf == 1
MaxCoef == 1
MaxDirectN == 3

\* sample values q + p*x + r*x^2 at the indices 0 .. n-1
Samples(n, q, p, r) ==
  [j \in 1..n |-> RInt(q + p * (j - 1) + r * (j - 1) * (j - 1))]

\* the samples 0, 1, 4, .. 100 of x^2 at the positions 0 .. 10
Squares == Samples(11, 0, 0, 1)

SampleSeqs ==
  {Samples(n, q, p, r) : n \in 0..MaxN, q \in 0..MaxCoef,
                         p \in -MaxCoef..MaxCoef, r \in {0, 1}}
  \cup {Squares}

\* positions a direct caller of my_lowess may pass: indices shifted by one,
\* and indices with gaps
Shifted(n) == [j \in 1..n |-> j]
Gapped(n) == [j \in 1..n |-> 2 * (j - 1)]

\* np.zeros(n)
zeros(n) == [j \in 1..n |-> RZero]

\* lowess(data_y, windows_size) without SM_LOWESS: my_lowess on the
\* positions np.arange(len(data_y))
InitLowess ==
  /\ entry = "lowess"
  /\ data_y \in SampleSeqs
  /\ data_x = arange(0, Len(data_y))
  /\ window_size \in -MaxNegHalf..MaxHalf

\* my_lowess called with positions of its caller's choice
InitDirect ==
  /\ entry = "my_lowess"
  /\ data_y \in {Samples(n, q, 0, 0) : n \in 1..MaxDirectN, q \in 0..MaxCoef}
  /\ data_x \in {Shifted(Len(data_y)), Gapped(Len(data_y))}
  /\ window_size \in 0..MaxHalf

Init ==
  /\ (InitLowess \/ InitDirect)
  /\ pc = "loop"
  /\ i = 0
  /\ start = 0
  /\ end = 0
  /\ wts = <<>>
  /\ result = zeros(Len(data_y))
  /\ exc = "none"
  /\ done = {}
  /\ status_label = NotLoaded
  /\ plot = EmptyFigure
  /\ lines = <<>>

ThisWindow == Window(i, Len(data_y), window_size)

ThisOffsets == Offsets(data_x, i, ThisWindow.start, ThisWindow.end)

\* mutant of Iterate: the value is stored at result[i - 1], which for i = 0
\* is the last slot
Iterate_PreviousSlot ==
  /\ pc = "loop"
  /\ i < Len(data_y)
  /\ Raises(ThisOffsets) = "none"
  /\ start' = ThisWindow.start
  /\ end' = ThisWindow.end
  /\ wts' = Weights(ThisOffsets)
  /\ result' = [result EXCEPT ![IF i = 0 THEN Len(data_y) ELSE i] =
                                 KernelValue(data_x, data_y, window_size, i)]
  /\ i' = i + 1
  /\ UNCHANGED <<entry, data_x, data_y, window_size, pc, exc>>
  /\ UNCHANGED outside

\* one iteration of the loop that raises nothing
Iterate ==
  /\ pc = "loop"
  /\ i < Len(data_y)
  /\ Raises(ThisOffsets) = "none"
  /\ start' = ThisWindow.start
  /\ end' = ThisWindow.end
  /\ wts' = Weights(ThisOffsets)
  /\ result' = [result EXCEPT ![i + 1] = KernelValue(data_x, data_y, window_size, i)]
  /\ i' = i + 1
  /\ UNCHANGED <<entry, data_x, data_y, window_size, pc, exc>>
  /\ UNCHANGED outside

\* an iteration whose window is empty: max() raises ValueError
RaiseValueError ==
  /\ pc = "loop"
  /\ i < Len(data_y)
  /\ Raises(ThisOffsets) = "ValueError"
  /\ start' = ThisWindow.start
  /\ end' = ThisWindow.end
  /\ pc' = "raised"
  /\ exc' = "ValueError"
  /\ UNCHANGED <<entry, data_x, data_y, window_size, i, wts, result>>
  /\ UNCHANGED outside

\* an iteration whose window holds no sample at position i: IndexError
RaiseIndexError ==
  /\ pc = "loop"
  /\ i < Len(data_y)
  /\ Raises(ThisOffsets) = "IndexError"
  /\ start' = ThisWindow.start
  /\ end' = ThisWindow.end
  /\ wts' = Weights(ThisOffsets)
  /\ pc' = "raised"
  /\ exc' = "IndexError"
  /\ UNCHANGED <<entry, data_x, data_y, window_size, i, result>>
  /\ UNCHANGED outside

\* return result
Return ==
  /\ pc = "loop"
  /\ i = Len(data_y)
  /\ pc' = "returned"
  /\ UNCHANGED <<entry, data_x, data_y, window_size, i, start, end, wts,
                 result, exc>>
  /\ UNCHANGED outside

Next == Iterate \/ RaiseValueError \/ RaiseIndexError \/ Return

Spec == Init /\ [][Next]_vars

----------------------------------------------------------------------------
(* The loop body evaluated for the target indices in an arbitrary order,   *)
(* as by workers that own disjoint sets of indices: each evaluation runs   *)
(* the body of the loop for one index j that has not been evaluated yet.   *)

MaxParN == 3

InitAnyOrder ==
  /\ entry = "lowess"
  /\ data_y \in {Samples(n, q, p, 1) : n \in 1..MaxParN, q \in 0..MaxCoef,
                                       p \in -MaxCoef..MaxCoef}
  /\ data_x = arange(0, Len(data_y))
  /\ window_size \in 0..MaxHalf
  /\ pc = "loop"
  /\ i = 0
  /\ start = 0
  /\ end = 0
  /\ wts = <<>>
  /\ result = zeros(Len(data_y))
  /\ exc = "none"
  /\ done = {}
  /\ status_label = NotLoaded
  /\ plot = EmptyFigure
  /\ lines = <<>>

\* x_local - j for the window of index j
OffsetsOf(j) ==
  Offsets(data_x, j, Window(j, Len(data_y), window_size).start,
          Window(j, Len(data_y), window_size).end)

\* mutant of EvaluateIndex: result is the array data_y itself, so that every
\* evaluation also overwrites its input sample
EvaluateIndex_Aliased(j) ==
  /\ pc = "loop"
  /\ j \in 0..(Len(data_y) - 1)
  /\ j \notin done
  /\ Raises(OffsetsOf(j)) = "none"
  /\ i' = j
  /\ start' = Window(j, Len(data_y), window_size).start
  /\ end' = Window(j, Len(data_y), window_size).end
  /\ wts' = Weights(OffsetsOf(j))
  /\ result' = [result EXCEPT ![j + 1] =
                  KernelValue(data_x, data_y, window_size, j)]
  /\ data_y' = [data_y EXCEPT ![j + 1] =
                  KernelValue(data_x, data_y, window_size, j)]
  /\ done' = done \cup {j}
  /\ UNCHANGED <<entry, data_x, window_size, pc, exc, status_label, plot,
                 lines>>

\* the loop body for index j
EvaluateIndex(j) ==
  /\ pc = "loop"
  /\ j \in 0..(Len(data_y) - 1)
  /\ j \notin done
  /\ Raises(OffsetsOf(j)) = "none"
  /\ i' = j
  /\ start' = Window(j, Len(data_y), window_size).start
  /\ end' = Window(j, Len(data_y), window_size).end
  /\ wts' = Weights(OffsetsOf(j))
  /\ result' = [result EXCEPT ![j + 1] =
                  KernelValue(data_x, data_y, window_size, j)]
  /\ done' = done \cup {j}
  /\ UNCHANGED <<entry, data_x, data_y, window_size, pc, exc, status_label,
                 plot, lines>>

\* return result, once every index has been evaluated
Gather ==
  /\ pc = "loop"
  /\ done = 0..(Len(data_y) - 1)
  /\ pc' = "returned"
  /\ UNCHANGED <<entry, data_x, data_y, window_size, i, start, end, wts,
                 result, exc, done, status_label, plot, lines>>

NextAnyOrder == (\E j \in 0..(MaxParN - 1) : EvaluateIndex(j)) \/ Gather

SpecAnyOrder == InitAnyOrder /\ [][NextAnyOrder]_vars

----------------------------------------------------------------------------
(* The application: the button handler App.read_from_file with             *)
(* App.validate_input and App.create_plot.  A file is the sequence of its  *)
(* lines, the header line first; a line is the sequence of its fields, as  *)
(* line.split() yields them; a field is a piece of text, of which the      *)
(* model keeps what int() and float() make of it.  The name of the file,   *)
(* which the status label shows, is left out.  SM_LOWESS is not set.       *)

\* the text of an integer such as "1951"
IntField(z) == [kind |-> "int", val |-> z]
\* the text of a float with a fraction part such as "4.0": int() rejects it
FloatField(z) == [kind |-> "float", val |-> z]
\* the text "nan": float() accepts it, int() rejects it
NanField == [kind |-> "nan", val |-> 0]
\* text that is no number
TextField == [kind |-> "text", val |-> 0]

\* int(text) returns instead of raising ValueError
ParsesInt(f) == f.kind = "int"
\* float(text) returns instead of raising ValueError
ParsesFloat(f) == f.kind \in {"int", "float", "nan"}
\* float(text)
ParseFloat(f) == IF f.kind = "nan" THEN NaN ELSE RInt(f.val)

\* len(lines) < 5
MinLines == 5
\* lowess(np.array(temperatures), 5)
HalfWidthApp == 5

MaxRows == 6
MaxPlotN == 12

Header == <<TextField, TextField, TextField>>

\* data line j of a well-formed file: year, temperature, sample smoothing
Row(j) ==
  <<IntField(1900 + j), FloatField((j * j) % 7), FloatField((j * j) % 5)>>

Defects ==
  {"none", "short_row", "blank_row", "year_gap", "year_text", "temp_text",
   "smoothed_text", "temp_nan"}

\* a file of n data lines with one defect, in or after its second data line
MakeFile(n, defect) ==
  <<Header>> \o
  [j \in 1..n |->
    IF defect = "year_gap" /\ j >= 3
      THEN <<IntField(1901 + j), Row(j)[2], Row(j)[3]>>
    ELSE IF j # 2 \/ defect = "none" THEN Row(j)
    ELSE IF defect = "short_row" THEN <<Row(j)[1], Row(j)[2]>>
    ELSE IF defect = "blank_row" THEN <<>>
    ELSE IF defect = "year_text" THEN <<TextField, Row(j)[2], Row(j)[3]>>
    ELSE IF defect = "temp_text" THEN <<Row(j)[1], TextField, Row(j)[3]>>
    ELSE IF defect = "smoothed_text" THEN <<Row(j)[1], Row(j)[2], TextField>>
    ELSE IF defect = "temp_nan" THEN <<Row(j)[1], NanField, Row(j)[3]>>
    ELSE Row(j)]

\* the files the user may pick: an empty one, and files of 4 and more data
\* lines
Files ==
  {<<>>} \cup
  {MakeFile(n, d) : n \in (MinLines - 1)..MaxRows, d \in Defects}

\* f.readlines()[1:]
DataLines(f) == SubSeq(f, 2, Len(f))

\* mutant of validate_input: the number of lines is not checked
validate_input_NoMinimum(ls) ==
  IF \E j \in 1..Len(ls) : Len(ls[j]) # 3 THEN "format"
  ELSE IF \E j \in 1..Len(ls) : ~ParsesInt(ls[j][1]) THEN "ValueError"
  ELSE IF \E j \in 1..(Len(ls) - 1) : ls[j + 1][1].val - ls[j][1].val # 1
    THEN "years"
  ELSE "ok"

\* validate_input: "ok" when it returns, otherwise what it raises: too few
\* lines, a line without three fields, the ValueError of int(), years that
\* do not go up by one
validate_input(ls) ==
  IF Len(ls) < MinLines THEN "too_few"
  ELSE IF \E j \in 1..Len(ls) : Len(ls[j]) # 3 THEN "format"
  ELSE IF \E j \in 1..Len(ls) : ~ParsesInt(ls[j][1]) THEN "ValueError"
  ELSE IF \E j \in 1..(Len(ls) - 1) : ls[j + 1][1].val - ls[j][1].val # 1
    THEN "years"
  ELSE "ok"

\* WeatherDataEntry.try_from returns for every line
try_from_all(ls) ==
  \A j \in 1..Len(ls) :
    ParsesInt(ls[j][1]) /\ ParsesFloat(ls[j][2]) /\ ParsesFloat(ls[j][3])

\* data.get_year() and np.array(data.get_temperature())
get_year(ls) == [j \in 1..Len(ls) |-> ls[j][1].val]
get_temperature(ls) == [j \in 1..Len(ls) |-> ParseFloat(ls[j][2])]

\* mutant of lowess_args: create_plot smooths with half-width 1
lowess_args_HalfWidthOne(ls) ==
  [data_y |-> get_temperature(ls), windows_size |-> 1]

\* the arguments of create_plot's call of lowess
lowess_args(ls) ==
  [data_y |-> get_temperature(ls), windows_size |-> HalfWidthApp]

Loaded == [kind |-> "loaded", reason |-> "none"]
Failed(reason) == [kind |-> "failed", reason |-> reason]

\* the locals of my_lowess when no call is running
NoCall ==
  /\ data_x = <<>>
  /\ data_y = <<>>
  /\ window_size = 0
  /\ i = 0
  /\ start = 0
  /\ end = 0
  /\ wts = <<>>
  /\ result = <<>>
  /\ lines = <<>>

smoother == <<data_x, data_y, window_size, i, start, end, wts, result, lines>>

\* the application after create_widgets, waiting for the button
InitApp ==
  /\ entry = "create_plot"
  /\ pc = "idle"
  /\ NoCall
  /\ exc = "none"
  /\ done = {}
  /\ status_label = NotLoaded
  /\ plot = EmptyFigure

\* read_from_file, the dialog closed without a file: nothing happens
ReadCancelled ==
  /\ pc = "idle"
  /\ UNCHANGED vars

\* read_from_file on a file that validate_input rejects: the label shows the
\* failure
ReadInvalid ==
  /\ pc = "idle"
  /\ \E f \in Files :
       /\ validate_input(DataLines(f)) # "ok"
       /\ status_label' = Failed(validate_input(DataLines(f)))
  /\ UNCHANGED <<entry, pc, exc, done, plot>>
  /\ UNCHANGED smoother

\* read_from_file on a file that validate_input accepts and of which a
\* field is no number: the label shows the file as loaded, then try_from
\* raises and the handler ends
ReadUnparsable ==
  /\ pc = "idle"
  /\ \E f \in Files :
       /\ validate_input(DataLines(f)) = "ok"
       /\ ~try_from_all(DataLines(f))
  /\ status_label' = Loaded
  /\ UNCHANGED <<entry, pc, exc, done, plot>>
  /\ UNCHANGED smoother

\* read_from_file on a file that validate_input and try_from accept, up to
\* the call of my_lowess in create_plot
ReadValid ==
  /\ pc = "idle"
  /\ \E f \in Files :
       /\ validate_input(DataLines(f)) = "ok"
       /\ try_from_all(DataLines(f))
       /\ lines' = DataLines(f)
  /\ status_label' = Loaded
  /\ data_y' = lowess_args(lines').data_y
  /\ data_x' = arange(0, Len(data_y'))
  /\ window_size' = lowess_args(lines').windows_size
  /\ i' = 0
  /\ start' = 0
  /\ end' = 0
  /\ wts' = <<>>
  /\ result' = zeros(Len(data_y'))
  /\ pc' = "loop"
  /\ UNCHANGED <<entry, exc, done, plot>>

\* the rest of create_plot: the figure is drawn anew and the handler ends
Draw ==
  /\ pc = "returned"
  /\ plot' = [years |-> get_year(lines), my_lowess |-> result]
  /\ pc' = "idle"
  /\ data_x' = <<>>
  /\ data_y' = <<>>
  /\ window_size' = 0
  /\ i' = 0
  /\ start' = 0
  /\ end' = 0
  /\ wts' = <<>>
  /\ result' = <<>>
  /\ lines' = <<>>
  /\ UNCHANGED <<entry, exc, done, status_label>>

NextApp ==
  \/ ReadCancelled
  \/ ReadInvalid
  \/ ReadUnparsable
  \/ ReadValid
  \/ Iterate
  \/ Return
  \/ Draw

SpecApp == InitApp /\ [][NextApp]_vars

\* create_plot called on the data of a file of up to MaxPlotN lines that
\* validate_input and try_from accept, at its call of my_lowess
InitPlot ==
  /\ entry = "create_plot"
  /\ lines \in {DataLines(MakeFile(n, d)) : n \in 1..MaxPlotN,
                                           d \in {"none", "temp_nan"}}
  /\ validate_input(lines) = "ok"
  /\ try_from_all(lines)
  /\ data_y = lowess_args(lines).data_y
  /\ data_x = arange(0, Len(data_y))
  /\ window_size = lowess_args(lines).windows_size
  /\ i = 0
  /\ start = 0
  /\ end = 0
  /\ wts = <<>>
  /\ result = zeros(Len(data_y))
  /\ pc = "loop"
  /\ exc = "none"
  /\ done = {}
  /\ status_label = Loaded
  /\ plot = EmptyFigure

NextPlot == Iterate \/ Return \/ Draw

SpecPlot == InitPlot /\ [][NextPlot]_vars

----------------------------------------------------------------------------
(* Properties.  "Via lowess" means positions 0 .. n-1, as lowess passes    *)
(* them; the target index of the last completed iteration is i - 1, and    *)
(* start, end and wts are that iteration's window and weights.             *)

N == Len(data_y)
ViaLowess == entry = "lowess"
Target == i - 1
Completed == pc # "raised" /\ i >= 1
Interior(t) == window_size <= t /\ t <= N - 1 - window_size

\* the offsets x_local - i of the last completed iteration
LastOffsets == [j \in 1..(end - start) |-> RInt(data_x[start + j] - Target)]

\* the window of the last completed iteration is degenerate: its total
\* weight or its weighted sum of squared centred offsets is zero
LastDegenerate ==
  \/ REq(RSum(wts), RZero)
  \/ REq(WeightedSpread(LastOffsets, wts), RZero)

\* C1: for a non-empty input of length n and half_width >= 0 the call never
\* raises, the result always has length n, every iteration writes exactly the
\* slot of its own target index with that index's kernel value and leaves the
\* other slots alone, the slots are written in index order (the slots from i
\* on are still the initial zeros), and the call returns after slot n-1.
C1_State ==
  (ViaLowess /\ N >= 1 /\ window_size >= 0) =>
     /\ pc # "raised"
     /\ Len(result) = N
     /\ i \in 0..N
     /\ (pc = "returned" => i = N)
     /\ \A j \in (i + 1)..N : result[j] = RZero

C1_Step ==
  (ViaLowess /\ N >= 1 /\ window_size >= 0 /\ pc = "loop" /\ i < N) =>
     /\ pc' = "loop"
     /\ i' = i + 1
     /\ Len(result') = N
     /\ result'[i + 1] = KernelValue(data_x, data_y, window_size, i)
     /\ \A j \in 1..N : j # i + 1 => result'[j] = result[j]

C1_LengthAndOrder == [][C1_Step]_vars /\ []C1_State

C1_Witness ==
  /\ ViaLowess /\ window_size >= 0 /\ N >= 3
  /\ pc = "returned"
  /\ Len(result) = N
  /\ \A j \in 1..N : result[j] = KernelValue(data_x, data_y, window_size, j - 1)

\* C2: for half_width >= 0, whenever n > 2*half_width the window of every
\* target index (the two ends included) holds exactly 2*half_width+1 indices
\* inside [0, n) and contains the target; whenever n <= 2*half_width+1 the
\* window is the whole sequence [0, n).
C2_WindowWidth ==
  (ViaLowess /\ window_size >= 0 /\ Completed) =>
     /\ (N > 2 * window_size =>
           /\ end - start = 2 * window_size + 1
           /\ 0 <= start /\ end <= N)
     /\ (N <= 2 * window_size + 1 => start = 0 /\ end = N)

C2_Witness ==
  /\ ViaLowess /\ window_size >= 1 /\ N > 2 * window_size + 1
  /\ pc = "returned"
  /\ end = N /\ end - start = 2 * window_size + 1

\* C3: if every sample equals the same constant c, then for every
\* half_width >= 0 and every target index whose window is not degenerate the
\* smoothed value equals c.
ConstantSamples == \A j \in 1..N : data_y[j] = data_y[1]

C3_ConstantInput ==
  (ViaLowess /\ window_size >= 0 /\ Completed /\ ConstantSamples
     /\ ~LastDegenerate) => REq(result[i], data_y[1])

C3_Witness ==
  /\ ViaLowess /\ window_size = 2 /\ N >= 5 /\ ConstantSamples
  /\ data_y[1] = ROne
  /\ pc = "returned"
  /\ \A j \in 1..N : REq(result[j], ROne)

\* C4 as stated: for samples that are an exact linear function p*x + q of the
\* position, every half_width >= 0 and every interior target index t
\* (half_width <= t <= n-1-half_width), the smoothed value is exactly p*t + q.
LinearAt(t, v) ==
  \E q \in 0..MaxCoef, p \in -MaxCoef..MaxCoef :
     /\ data_y = Samples(N, q, p, 0)
     /\ REq(v, RInt(q + p * t))

LinearSamples == \E q \in 0..MaxCoef, p \in -MaxCoef..MaxCoef :
                    data_y = Samples(N, q, p, 0)

C4_LinearExact_AsStated ==
  (ViaLowess /\ window_size >= 0 /\ Completed /\ LinearSamples
     /\ Interior(Target)) => LinearAt(Target, result[i])

\* C4 amended: the same for every half_width >= 2 (with half_width 0 or 1 the
\* interior window is degenerate and the smoothed value is nan).
C4_LinearExact ==
  (ViaLowess /\ window_size >= 2 /\ Completed /\ LinearSamples
     /\ Interior(Target)) => LinearAt(Target, result[i])

C4_Witness ==
  /\ ViaLowess /\ window_size = 2 /\ Completed /\ Interior(Target)
  /\ data_y = Samples(N, 1, 1, 0)
  /\ Target = 3
  /\ REq(result[i], RInt(4))

Rat(a, b) == RDiv(RInt(a), RInt(b))

C6_Golden ==
  (ViaLowess /\ data_y = Squares /\ window_size = 2) =>
     /\ (i >= 6 => REq(result[6], Rat(15318, 599)))
     /\ (i = 6 =>
           /\ start = 3 /\ end = 8
           /\ REq(wts[1], RZero) /\ REq(wts[2], Rat(343, 512))
           /\ REq(wts[3], ROne) /\ REq(wts[4], Rat(343, 512))
           /\ REq(wts[5], RZero))

C6_Witness ==
  /\ ViaLowess /\ data_y = Squares /\ window_size = 2 /\ pc = "returned"
  /\ REq(result[6], Rat(15318, 599))

\* C7: for positions 0 .. n-1 and an interior target index t the window is
\* [t - half_width, t + half_width + 1) and its weights are symmetric about
\* the target: the weight at offset +k equals the weight at offset -k for
\* every k in 1 .. half_width.
C7_InteriorSymmetry ==
  (ViaLowess /\ window_size >= 0 /\ Completed /\ Interior(Target)) =>
     /\ start = Target - window_size
     /\ Len(wts) = 2 * window_size + 1
     /\ \A k \in 1..window_size :
           REq(wts[window_size + 1 + k], wts[window_size + 1 - k])

C7_Witness ==
  /\ ViaLowess /\ window_size = 2 /\ Completed /\ Interior(Target)
  /\ REq(wts[2], Rat(343, 512))
  /\ REq(wts[4], Rat(343, 512))

\* C8 as stated: a call on an empty sequence fails loudly; it never returns
\* an output.
C8_EmptyFailsLoudly == (ViaLowess /\ N = 0) => pc # "returned"

\* C9: a call on a non-empty sequence with half_width < 0 never returns: the
\* window of target index 0 is empty, the first iteration raises ValueError,
\* and no slot of the result has been written.
C9_NegativeHalfWidth ==
  (N >= 1 /\ window_size < 0) =>
     /\ pc # "returned"
     /\ i = 0
     /\ result = zeros(N)
     /\ (pc = "loop" => Raises(ThisOffsets) = "ValueError")
     /\ (pc = "raised" => exc = "ValueError" /\ end <= start)

C9_Witness ==
  /\ N >= 2 /\ window_size < 0
  /\ pc = "raised" /\ exc = "ValueError"
  /\ start = -window_size /\ end = window_size + 1

\* C10: for positions 0 .. n-1 and half_width >= 0 no exception is raised;
\* whenever the window of a target index has zero total weight or a zero
\* weighted sum of squared centred offsets, the slot of that index receives a
\* non-finite value; the loop goes on to the next index, and the call returns
\* all n slots.
C10_DegeneracyIsAValue ==
  (ViaLowess /\ N >= 1 /\ window_size >= 0) =>
     /\ pc # "raised" /\ exc = "none"
     /\ (Completed /\ LastDegenerate => ~IsFinite(result[i]))
     /\ (pc = "loop" /\ i < N => Raises(ThisOffsets) = "none")
     /\ (pc = "returned" => i = N /\ Len(result) = N)

C10_Witness ==
  /\ ViaLowess /\ N >= 3 /\ window_size = 1
  /\ pc = "returned"
  /\ IsFinite(result[1])
  /\ ~IsFinite(result[2])
  /\ IsFinite(result[N])

\* C11 as stated: a call of my_lowess with positions that are not the
\* indices 0 .. n-1 raises no exception (and so returns n values).
C11_ForeignPositionsReturn ==
  (entry = "my_lowess" /\ data_x # arange(0, N)) => pc # "raised"

\* C12: for n >= 1, half_width h >= 0 and every target index t the window
\* is [s, s + L) with L = min(n, 2h+1) and s = min(max(t - h, 0), n - L); for
\* h >= n it is the whole sequence.
C12_ClampAndShift ==
  (window_size >= 0 /\ N >= 1 /\ Completed) =>
     LET L == Min(N, 2 * window_size + 1)
         s == Min(Max(Target - window_size, 0), N - L)
     IN  /\ start = s
         /\ end = s + L
         /\ (window_size >= N => start = 0 /\ end = N)

C12_Witness ==
  /\ ViaLowess /\ window_size = 2 /\ N = 6 /\ pc = "returned"
  /\ start = 1 /\ end = 6

\* C13: for positions 0 .. n-1 and a window whose largest absolute offset m
\* is > 0, the weight of the sample at offset d is (1 - |d/m|^3)^3, that is
\* (m^3 - |d|^3)^3 / m^9; it lies in [0, 1]; the target (offset 0) has weight
\* exactly 1; and a weight is 0 exactly when |d| = m.
LastIntOffsets == Offsets(data_x, Target, start, end)
LastM == SeqMax([j \in 1..Len(LastIntOffsets) |-> Abs(LastIntOffsets[j])])
Pow3(z) == z * z * z

C13_TriCubeRange ==
  (ViaLowess /\ window_size >= 0 /\ Completed /\ LastM > 0) =>
     /\ Len(wts) = end - start
     /\ \A j \in 1..Len(wts) :
          LET d == Abs(LastIntOffsets[j])
          IN  /\ REq(wts[j], Rat(Pow3(Pow3(LastM) - Pow3(d)),
                                 Pow3(Pow3(LastM))))
              /\ RLe(RZero, wts[j]) /\ RLe(wts[j], ROne)
              /\ (d = 0 => REq(wts[j], ROne))
              /\ (REq(wts[j], RZero) <=> d = LastM)
     /\ \E j \in 1..Len(wts) : LastIntOffsets[j] = 0

C13_Witness ==
  /\ ViaLowess /\ window_size = 2 /\ N >= 5 /\ Completed /\ Target = 0
  /\ LastM = 4
  /\ REq(wts[2], Rat(250047, 262144))
  /\ REq(wts[5], RZero)

\* C16: for positions 0 .. n-1, n >= 1 and half_width >= 0 the window of
\* every target index t satisfies 0 <= start <= t < end <= n, exactly one
\* sample of the window has the target's position, and no IndexError (nor
\* any other exception) is raised.
C16_TargetInWindow ==
  (ViaLowess /\ N >= 1 /\ window_size >= 0) =>
     /\ exc = "none" /\ pc # "raised"
     /\ (pc = "loop" /\ i < N =>
           /\ Raises(ThisOffsets) = "none"
           /\ Cardinality(TargetSlots(ThisOffsets)) = 1)
     /\ (Completed =>
           /\ 0 <= start /\ start <= Target /\ Target < end /\ end <= N
           /\ TargetSlots(LastIntOffsets) = {Target - start + 1})

C16_Witness ==
  /\ ViaLowess /\ window_size = 1 /\ N = 4 /\ pc = "returned"
  /\ start = 1 /\ end = 4 /\ Target = 3
  /\ TargetSlots(LastIntOffsets) = {3}

\* C17: for positions 0 .. n-1, n >= 1 and half_width h >= 0 the value of
\* target index t is non-finite if and only if fewer than two samples of the
\* window have a non-zero weight, and that is exactly when the window length
\* L = min(n, 2h+1) is 1 or 2, or L is 3 and the target is the middle sample;
\* otherwise the slope denominator is non-zero and the value is finite.
NonZeroWeights == Cardinality({j \in 1..Len(wts) : ~REq(wts[j], RZero)})

C17_DegenerateWindows ==
  (ViaLowess /\ N >= 1 /\ window_size >= 0 /\ Completed) =>
     LET L == Min(N, 2 * window_size + 1)
         small == L \in {1, 2} \/ (L = 3 /\ Target = start + 1)
     IN  /\ end - start = L
         /\ (~IsFinite(result[i]) <=> NonZeroWeights < 2)
         /\ (NonZeroWeights < 2 <=> small)
         /\ (~small => /\ ~REq(WeightedSpread(LastOffsets, wts), RZero)
                       /\ IsFinite(result[i]))

C17_Witness ==
  /\ ViaLowess /\ window_size = 2 /\ N = 3 /\ pc = "returned"
  /\ IsFinite(result[1]) /\ ~IsFinite(result[2]) /\ IsFinite(result[3])

\* C14: when the indices 0 .. n-1 are evaluated in any order, every
\* evaluation leaves the input sequence and the other slots alone and writes
\* only the slot of its own index; at every moment the written slots hold
\* what the sequential loop stores in them and the others the initial zero;
\* so the sequence returned is the one the sequential loop returns.
SequentialResult ==
  [j \in 1..N |-> KernelValue(data_x, data_y, window_size, j - 1)]

C14_State ==
  /\ Len(result) = N
  /\ \A j \in 1..N :
        result[j] = IF j - 1 \in done THEN SequentialResult[j] ELSE RZero
  /\ (pc = "returned" => done = 0..(N - 1) /\ result = SequentialResult)

C14_Step ==
  /\ data_x' = data_x /\ data_y' = data_y /\ window_size' = window_size
  /\ \A j \in 1..N :
        result'[j] # result[j] => (j - 1 \notin done /\ done' = done \cup {j - 1})

C14_OrderIndependence == [][C14_Step]_vars /\ []C14_State

\* the indices 2, 1, 0 were evaluated in an order that ends with index 0
C14_Witness ==
  /\ N = 3 /\ window_size = 1 /\ pc = "returned"
  /\ i = 0
  /\ done = {0, 1, 2}
  /\ result = SequentialResult
  /\ IsFinite(result[1]) /\ ~IsFinite(result[2])

\* C15: in the application, whatever files have been loaded before, the
\* smoother runs only on the data lines of a file that validate_input has
\* accepted, which are at least 5 samples; a step that starts the smoother
\* comes from such a load, the figure changes only when a finished run is
\* drawn, and a load that ends with the label showing a failure leaves the
\* figure and everything else but the label as they were.
C15_State ==
  pc \in {"loop", "returned"} =>
    /\ validate_input(lines) = "ok"
    /\ Len(lines) >= 5
    /\ N = Len(lines)
    /\ data_y = get_temperature(lines)

C15_Step ==
  /\ (pc = "idle" /\ pc' = "loop") =>
       (validate_input(lines') = "ok" /\ Len(data_y') >= 5 /\ plot' = plot)
  /\ (pc = "idle" /\ status_label'.kind = "failed") =>
       (plot' = plot /\ pc' = "idle" /\ UNCHANGED smoother)
  /\ plot' # plot =>
       (pc = "returned" /\ Len(plot'.my_lowess) >= 5
          /\ plot'.my_lowess = result)

C15_SmootherNeedsValidData == [][C15_Step]_vars /\ []C15_State

\* a load has failed after an earlier one was drawn: the figure still
\* shows the earlier data
C15_Witness ==
  /\ pc = "idle"
  /\ status_label.kind = "failed"
  /\ status_label.reason = "too_few"
  /\ Len(plot.my_lowess) >= 5

\* C18: called by create_plot, that is with half-width 5 on the 5 or more
\* samples of a validated file, no iteration raises, every window has at
\* least two samples of non-zero weight and a non-zero weighted sum of
\* squared centred offsets, and the value of every target index is finite
\* when the temperatures are.
C18_AppNeverDegenerate ==
  pc \in {"loop", "returned"} =>
    /\ window_size = 5
    /\ N >= 5
    /\ (i < N => Raises(ThisOffsets) = "none")
    /\ (i >= 1 =>
         /\ NonZeroWeights >= 2
         /\ ~REq(WeightedSpread(LastOffsets, wts), RZero)
         /\ ((\A j \in 1..N : IsFinite(data_y[j])) => IsFinite(result[i])))

\* a run on more samples than the widest window holds has returned with
\* finite values only
C18_Witness ==
  /\ pc = "returned"
  /\ N > 2 * window_size + 1
  /\ \A j \in 1..N : IsFinite(data_y[j]) /\ IsFinite(result[j])

====
